---- MODULE Spec2Model ----
(***************************************************************************)
(* The OCCT C wrapper (occt_c_wrapper.cpp / occt_c_wrapper.h) as a state   *)
(* machine.  The state is the set of objects the facade has allocated with *)
(* `new` and not yet released (heap), and the record of the last facade    *)
(* call as its caller observes it (last).  The geometry kernel is an       *)
(* external collaborator: every answer its interface admits (done,         *)
(* not-done, a raised failure) is a nondeterministic choice.               *)
(*                                                                         *)
(* Numbers.  Doubles are modelled by integers.  Mesh node coordinates are  *)
(* multiples of 1e-4, so a cross product of two edge vectors is a multiple *)
(* of 1e-8 and the threshold 1e-7 of OCCT_Tessellate is EpsNormal = 10 of  *)
(* those units.  The float conversion of the mesh buffers is exact here.   *)
(***************************************************************************)
EXTENDS Integers, Sequences, FiniteSets, TLC

VARIABLES heap, last

vars == <<heap, last>>

----------------------------------------------------------------------------
(* Bounds of the model *)

\* number of addresses `new` can hand out
MaxObj == 3

\* number of faces of a solid or compound the kernel builds
MaxFaces == 2

----------------------------------------------------------------------------
(* Handles and objects *)

NULL == 0

Handles == 1..MaxObj

Free == [kind |-> "free"]

Origin == <<0, 0, 0>>

\* inputs of the value constructors: x, y, z triples
Triples == {Origin, <<0, 0, 2>>}

Dot(a, b) == a[1] * b[1] + a[2] * b[2] + a[3] * b[3]

SquareMagnitude(a) == Dot(a, a)

Add(a, b) == <<a[1] + b[1], a[2] + b[2], a[3] + b[3]>>

Sub(a, b) == <<a[1] - b[1], a[2] - b[2], a[3] - b[3]>>

Crossed(a, b) ==
    <<a[2] * b[3] - a[3] * b[2], a[3] * b[1] - a[1] * b[3], a[1] * b[2] - a[2] * b[1]>>

Live(h) == h \in Handles /\ heap[h].kind # "free"

LiveOf(k) == {h \in Handles : heap[h].kind = k}

\* a handle argument of kind k: null, or a live object of that kind
ArgOf(k) == {NULL} \cup LiveOf(k)

HasRoom == \E h \in Handles : heap[h].kind = "free"

\* the address `new` returns: an unused one
NewAddr == CHOOSE h \in Handles : heap[h].kind = "free" /\ \A g \in 1..(h - 1) : heap[g].kind # "free"

----------------------------------------------------------------------------
(* The record of a call *)

NoValue == 0 - 2

\* the call returned to its caller: a handle (or NULL), an int, a bool
Returned(op, args, h, v, f, k) ==
    [op |-> op, args |-> args, status |-> "returned", handle |-> h, value |-> v,
     flag |-> f, kernel |-> k]

\* a kernel failure left the call through the C boundary
Escaped(op, args, k) ==
    [op |-> op, args |-> args, status |-> "escaped", handle |-> NULL, value |-> NoValue,
     flag |-> FALSE, kernel |-> k]

ReturnHandle(op, args, h, k) == Returned(op, args, h, NoValue, FALSE, k)

\* one step delegated to the kernel, with what it answered
KernelCall(fn, args, outcome) == [fn |-> fn, args |-> args, outcome |-> outcome]

\* what a kernel builder can answer
Outcomes == {"done", "notdone", "raise"}

\* no call is pending: the caller has taken the result of the one before
Idle ==
    [op |-> "none", args |-> <<>>, status |-> "returned", handle |-> NULL, value |-> NoValue,
     flag |-> FALSE, kernel |-> <<>>]

\* the facade is synchronous: a call starts when the caller is back in control
Ready == last = Idle

Init ==
    /\ heap = [h \in Handles |-> Free]
    /\ last = Idle

\* the caller takes the result of the call and goes on
Resume ==
    /\ last # Idle
    /\ last' = Idle
    /\ heap' = heap

----------------------------------------------------------------------------
(* Geometry primitives (gp package) *)

\* gp_Dir(x, y, z) raises Standard_ConstructionError on a vector of no length
gp_Dir_Raises(v) == SquareMagnitude(v) = 0

\* the direction of v: v / |v|, kept as v with its squared length
gp_Dir(v) == [xyz |-> v, d2 |-> SquareMagnitude(v)]

OCCT_Pnt_Create(S) ==
    Ready /\ \E v \in S :
        /\ HasRoom
        /\ heap' = [heap EXCEPT ![NewAddr] = [kind |-> "Pnt", xyz |-> v]]
        /\ last' = ReturnHandle("OCCT_Pnt_Create", v, NewAddr, <<>>)

OCCT_Vec_Create(S) ==
    Ready /\ \E v \in S :
        /\ HasRoom
        /\ heap' = [heap EXCEPT ![NewAddr] = [kind |-> "Vec", xyz |-> v]]
        /\ last' = ReturnHandle("OCCT_Vec_Create", v, NewAddr, <<>>)

OCCT_Dir_Create(S) ==
    Ready /\ \E v \in S :
        IF gp_Dir_Raises(v)
        THEN /\ heap' = heap
             /\ last' = Escaped("OCCT_Dir_Create", v, <<KernelCall("gp_Dir", v, "raise")>>)
        ELSE /\ HasRoom
             /\ heap' = [heap EXCEPT ![NewAddr] = [kind |-> "Dir", dir |-> gp_Dir(v)]]
             /\ last' = ReturnHandle("OCCT_Dir_Create", v, NewAddr,
                                     <<KernelCall("gp_Dir", v, "done")>>)

OCCT_Ax2_Create ==
    Ready /\ \E origin \in ArgOf("Pnt"), direction \in ArgOf("Dir") :
        IF origin = NULL \/ direction = NULL
        THEN /\ heap' = heap
             /\ last' = ReturnHandle("OCCT_Ax2_Create", <<origin, direction>>, NULL, <<>>)
        ELSE /\ HasRoom
             /\ heap' = [heap EXCEPT ![NewAddr] =
                            [kind |-> "Ax2", loc |-> heap[origin].xyz, dir |-> heap[direction].dir]]
             /\ last' = ReturnHandle("OCCT_Ax2_Create", <<origin, direction>>, NewAddr, <<>>)

\* Delete without the test of the handle: what a release through a null handle
\* does is not defined, an object of the kind may be gone after it
Delete_Unchecked(op, k) ==
    Ready /\ \E h \in ArgOf(k) :
        /\ \E g \in LiveOf(k) \cup {h} :
               heap' = IF g = NULL THEN heap ELSE [heap EXCEPT ![g] = Free]
        /\ last' = Returned(op, <<h>>, NULL, NoValue, FALSE, <<>>)

\* delete of a handle of kind k: `if (p) delete p`
Delete(op, k) ==
    Ready /\ \E h \in ArgOf(k) :
        /\ heap' = IF h = NULL THEN heap ELSE [heap EXCEPT ![h] = Free]
        /\ last' = Returned(op, <<h>>, NULL, NoValue, FALSE, <<>>)

OCCT_Pnt_Delete == Delete("OCCT_Pnt_Delete", "Pnt")

OCCT_Vec_Delete == Delete("OCCT_Vec_Delete", "Vec")

OCCT_Dir_Delete == Delete("OCCT_Dir_Delete", "Dir")

OCCT_Ax2_Delete == Delete("OCCT_Ax2_Delete", "Ax2")

----------------------------------------------------------------------------
(* Shapes *)

\* TopAbs_ShapeEnum of the kernel, in its declaration order
TopAbs_ShapeEnum(type) ==
    CASE type = "COMPOUND" -> 0
      [] type = "COMPSOLID" -> 1
      [] type = "SOLID" -> 2
      [] type = "SHELL" -> 3
      [] type = "FACE" -> 4
      [] type = "WIRE" -> 5
      [] type = "EDGE" -> 6
      [] type = "VERTEX" -> 7

\* the enumeration the header documents for OCCT_Shape_Type
DocumentedShapeType(type) ==
    CASE type = "VERTEX" -> 0
      [] type = "EDGE" -> 1
      [] type = "WIRE" -> 2
      [] type = "FACE" -> 3
      [] type = "SHELL" -> 4
      [] type = "SOLID" -> 5
      [] type = "COMPOUND" -> 6

\* a face as a builder leaves it: placed, not yet triangulated
NewFace(i) == [loc |-> <<0, 0, i - 1>>, tri |-> "none"]

\* TopoDS_Shape of a topological kind; a wire has no face
NewShape(type) ==
    [kind |-> "Shape", type |-> type,
     faces |-> IF type = "WIRE" THEN <<>> ELSE [i \in 1..MaxFaces |-> NewFace(i)]]

\* the shape with no topology: IsNull() holds of it
EmptyShape == [kind |-> "Shape", type |-> "NULL", faces |-> <<>>]

IsNull(s) == s.type = "NULL"

OCCT_Shape_Delete == Delete("OCCT_Shape_Delete", "Shape")

OCCT_Wire_Delete == Delete("OCCT_Wire_Delete", "Shape")

OCCT_Shape_IsValid ==
    Ready /\ \E shape \in ArgOf("Shape") :
        /\ heap' = heap
        /\ IF shape = NULL \/ IsNull(heap[shape])
           THEN last' = Returned("OCCT_Shape_IsValid", <<shape>>, NULL, NoValue, FALSE, <<>>)
           ELSE \E o \in {"valid", "invalid", "raise"} :
                    LET k == <<KernelCall("BRepCheck_Analyzer", <<shape>>, o)>>
                    IN  last' = IF o = "raise"
                                THEN Escaped("OCCT_Shape_IsValid", <<shape>>, k)
                                ELSE Returned("OCCT_Shape_IsValid", <<shape>>, NULL, NoValue,
                                              o = "valid", k)

ShapeType(shape) ==
    IF shape = NULL THEN 0 - 1
    ELSE IF IsNull(heap[shape]) THEN 0 - 1
    ELSE TopAbs_ShapeEnum(heap[shape].type)

OCCT_Shape_Type ==
    Ready /\ \E shape \in ArgOf("Shape") :
        /\ heap' = heap
        /\ last' = Returned("OCCT_Shape_Type", <<shape>>, NULL, ShapeType(shape), FALSE, <<>>)

----------------------------------------------------------------------------
(* Primitive shapes (BRepPrimAPI) *)

\* the argument check failed: null, the kernel is not reached
Reject(op, args) ==
    /\ heap' = heap
    /\ last' = ReturnHandle(op, args, NULL, <<>>)

\* a step the call delegates to the kernel, and the answers it can give
Step(fn, args, outs) == [fn |-> fn, args |-> args, outs |-> outs]

\* the calls a handler makes to the kernel, in order, up to the first one that is
\* not done: the handler returns (not-done) or lands in its catch (raise) there
RECURSIVE Runs(_)
Runs(steps) ==
    IF steps = <<>> THEN {<<>>}
    ELSE LET c == Head(steps)
         IN  {<<KernelCall(c.fn, c.args, o)>> : o \in c.outs \ {"done"}}
             \cup {<<KernelCall(c.fn, c.args, "done")>> \o r :
                      r \in IF "done" \in c.outs THEN Runs(Tail(steps)) ELSE {}}

AllDone(log, steps) ==
    /\ Len(log) = Len(steps)
    /\ \A i \in 1..Len(log) : log[i].outcome = "done"

\* Derive keeping the object it allocated when a later step fails: null is
\* returned and the object stays behind
Derive_Leaky(op, args, steps, obj) ==
    \E log \in Runs(steps) :
        /\ HasRoom
        /\ heap' = [heap EXCEPT ![NewAddr] = obj]
        /\ last' = ReturnHandle(op, args, IF AllDone(log, steps) THEN NewAddr ELSE NULL, log)

\* try { steps; if (!IsDone()) return nullptr; return new TopoDS_Shape(result); }
\* catch (...) { return nullptr; }
Derive(op, args, steps, obj) ==
    \E log \in Runs(steps) :
        IF AllDone(log, steps)
        THEN /\ HasRoom
             /\ heap' = [heap EXCEPT ![NewAddr] = obj]
             /\ last' = ReturnHandle(op, args, NewAddr, log)
        ELSE /\ heap' = heap
             /\ last' = ReturnHandle(op, args, NULL, log)

Build(op, args, fn, kargs, obj) == Derive(op, args, <<Step(fn, kargs, Outcomes)>>, obj)

\* Box_Rejects with < for <=: a dimension of 0 passes
Box_Rejects_Negative(dx, dy, dz) == dx < 0 \/ dy < 0 \/ dz < 0

Box_Rejects(dx, dy, dz) == dx <= 0 \/ dy <= 0 \/ dz <= 0

OCCT_Primitive_Box(D) ==
    Ready /\ \E dx \in D, dy \in D, dz \in D :
        IF Box_Rejects(dx, dy, dz)
        THEN Reject("OCCT_Primitive_Box", <<dx, dy, dz>>)
        ELSE Build("OCCT_Primitive_Box", <<dx, dy, dz>>,
                   "BRepPrimAPI_MakeBox", <<dx, dy, dz>>, NewShape("SOLID"))

OCCT_Primitive_Box_TwoCorners(C) ==
    Ready /\ \E p1 \in C, p2 \in C :
        Build("OCCT_Primitive_Box_TwoCorners", <<p1, p2>>,
              "BRepPrimAPI_MakeBox", <<p1, p2>>, NewShape("SOLID"))

Cylinder_Rejects(radius, height) == radius <= 0 \/ height <= 0

OCCT_Primitive_Cylinder(D) ==
    Ready /\ \E radius \in D, height \in D :
        IF Cylinder_Rejects(radius, height)
        THEN Reject("OCCT_Primitive_Cylinder", <<radius, height>>)
        ELSE Build("OCCT_Primitive_Cylinder", <<radius, height>>,
                   "BRepPrimAPI_MakeCylinder", <<radius, height>>, NewShape("SOLID"))

Cylinder_Axis_Rejects(base, axis, radius, height) ==
    base = NULL \/ axis = NULL \/ radius <= 0 \/ height <= 0

OCCT_Primitive_Cylinder_Axis(D) ==
    Ready /\ \E base \in ArgOf("Pnt"), axis \in ArgOf("Dir"), radius \in D, height \in D :
        IF Cylinder_Axis_Rejects(base, axis, radius, height)
        THEN Reject("OCCT_Primitive_Cylinder_Axis", <<base, axis, radius, height>>)
        ELSE Build("OCCT_Primitive_Cylinder_Axis", <<base, axis, radius, height>>,
                   "BRepPrimAPI_MakeCylinder",
                   <<heap[base].xyz, heap[axis].dir, radius, height>>, NewShape("SOLID"))

Sphere_Rejects(radius) == radius <= 0

OCCT_Primitive_Sphere(D) ==
    Ready /\ \E radius \in D :
        IF Sphere_Rejects(radius)
        THEN Reject("OCCT_Primitive_Sphere", <<radius>>)
        ELSE Build("OCCT_Primitive_Sphere", <<radius>>,
                   "BRepPrimAPI_MakeSphere", <<radius>>, NewShape("SOLID"))

Sphere_Center_Rejects(center, radius) == center = NULL \/ radius <= 0

OCCT_Primitive_Sphere_Center(D) ==
    Ready /\ \E center \in ArgOf("Pnt"), radius \in D :
        IF Sphere_Center_Rejects(center, radius)
        THEN Reject("OCCT_Primitive_Sphere_Center", <<center, radius>>)
        ELSE Build("OCCT_Primitive_Sphere_Center", <<center, radius>>,
                   "BRepPrimAPI_MakeSphere", <<heap[center].xyz, radius>>, NewShape("SOLID"))

\* Cone_Rejects asking both radii to be positive
Cone_Rejects_ZeroRadius(radius1, radius2, height) ==
    radius1 <= 0 \/ radius2 <= 0 \/ height <= 0

Cone_Rejects(radius1, radius2, height) ==
    \/ radius1 < 0 \/ radius2 < 0 \/ height <= 0
    \/ (radius1 = 0 /\ radius2 = 0)

OCCT_Primitive_Cone(D) ==
    Ready /\ \E radius1 \in D, radius2 \in D, height \in D :
        IF Cone_Rejects(radius1, radius2, height)
        THEN Reject("OCCT_Primitive_Cone", <<radius1, radius2, height>>)
        ELSE Build("OCCT_Primitive_Cone", <<radius1, radius2, height>>,
                   "BRepPrimAPI_MakeCone", <<radius1, radius2, height>>, NewShape("SOLID"))

\* Torus_Rejects with > for >=: equal radii pass
Torus_Rejects_Greater(major_radius, minor_radius) ==
    \/ major_radius <= 0 \/ minor_radius <= 0
    \/ minor_radius > major_radius

Torus_Rejects(major_radius, minor_radius) ==
    \/ major_radius <= 0 \/ minor_radius <= 0
    \/ minor_radius >= major_radius

OCCT_Primitive_Torus(D) ==
    Ready /\ \E major_radius \in D, minor_radius \in D :
        IF Torus_Rejects(major_radius, minor_radius)
        THEN Reject("OCCT_Primitive_Torus", <<major_radius, minor_radius>>)
        ELSE Build("OCCT_Primitive_Torus", <<major_radius, minor_radius>>,
                   "BRepPrimAPI_MakeTorus", <<major_radius, minor_radius>>, NewShape("SOLID"))

----------------------------------------------------------------------------
(* Wire creation.  Coordinates of polyline points are multiples of 1e-8,  *)
(* so the distance 1e-7 below which a segment is skipped is EpsWire = 10. *)

EpsWire == 10

SquareDistance(p1, p2) == SquareMagnitude(Sub(p2, p1))

\* IsDegenerate with the distance 1e-7 itself counted as degenerate
IsDegenerate_Inclusive(p1, p2) == SquareDistance(p1, p2) <= EpsWire * EpsWire

\* Distance(p1, p2) < 1e-7
IsDegenerate(p1, p2) == SquareDistance(p1, p2) < EpsWire * EpsWire

\* gp_Pnt(points[i*2], points[i*2 + 1], 0.0)
Pnt2D(points, i) == <<points[i + 1][1], points[i + 1][2], 0>>

\* gp_Pnt(points[i*3], points[i*3 + 1], points[i*3 + 2])
Pnt3D(points, i) == points[i + 1]

\* the loop over the points from index i on: the kernel calls it makes, given
\* what the edge builder answers for each segment (eo)
RECURSIVE WireLoop(_, _, _, _, _)
WireLoop(pts, num_points, closed, i, eo) ==
    IF i >= num_points \/ (i = num_points - 1 /\ ~closed) THEN <<>>
    ELSE LET next == (i + 1) % num_points
             p1 == pts[i + 1]
             p2 == pts[next + 1]
             rest == WireLoop(pts, num_points, closed, i + 1, eo)
         IN  IF IsDegenerate(p1, p2) THEN rest
             ELSE IF eo[i + 1] = "raise"
             THEN <<KernelCall("BRepBuilderAPI_MakeEdge", <<p1, p2>>, "raise")>>
             ELSE IF eo[i + 1] = "notdone"
             THEN <<KernelCall("BRepBuilderAPI_MakeEdge", <<p1, p2>>, "notdone")>> \o rest
             ELSE <<KernelCall("BRepBuilderAPI_MakeEdge", <<p1, p2>>, "done"),
                    KernelCall("BRepBuilderAPI_MakeWire::Add", <<p1, p2>>, "done")>> \o rest

Raised(log) == \E j \in 1..Len(log) : log[j].outcome = "raise"

\* the segments offered to the wire builder
Added(log) == SelectSeq(log, LAMBDA c : c.fn = "BRepBuilderAPI_MakeWire::Add")

\* WireDone with a wire builder that can be done without an edge
WireDone_Always(log) == {"done", "notdone"}

\* wireBuilder.IsDone(): never with no edge; with edges, the kernel's word on
\* whether they connect
WireDone(log) == IF Added(log) = <<>> THEN {"notdone"} ELSE {"done", "notdone"}

Wire_FromPoints(op, isnull, points, pts, closed) ==
    LET num_points == Len(points)
        args == <<isnull, points, closed>>
    IN  IF isnull \/ num_points < 2
        THEN Reject(op, args)
        ELSE \E eo \in [1..num_points -> Outcomes] :
                 LET log == WireLoop(pts, num_points, closed, 0, eo)
                 IN  IF Raised(log)
                     THEN /\ heap' = heap
                          /\ last' = ReturnHandle(op, args, NULL, log)
                     ELSE \E w \in WireDone(log) :
                              LET k == log \o <<KernelCall("BRepBuilderAPI_MakeWire", <<>>, w)>>
                              IN  IF w = "done"
                                  THEN /\ HasRoom
                                       /\ heap' = [heap EXCEPT ![NewAddr] = NewShape("WIRE")]
                                       /\ last' = ReturnHandle(op, args, NewAddr, k)
                                  ELSE /\ heap' = heap
                                       /\ last' = ReturnHandle(op, args, NULL, k)

OCCT_Wire_FromPoints2D(P) ==
    Ready /\ \E isnull \in BOOLEAN, points \in P, closed \in BOOLEAN :
        Wire_FromPoints("OCCT_Wire_FromPoints2D", isnull, points,
                        [i \in 1..Len(points) |-> Pnt2D(points, i - 1)], closed)

OCCT_Wire_FromPoints3D(P) ==
    Ready /\ \E isnull \in BOOLEAN, points \in P, closed \in BOOLEAN :
        Wire_FromPoints("OCCT_Wire_FromPoints3D", isnull, points,
                        [i \in 1..Len(points) |-> Pnt3D(points, i - 1)], closed)

----------------------------------------------------------------------------
(* Extrusion, revolution, Boolean operations *)

\* TopoDS::Wire / TopoDS::Face of a shape of another kind may raise
Cast(fn, s, type) ==
    Step(fn, <<s.type>>, IF s.type = type THEN {"done"} ELSE {"done", "raise"})

OCCT_Extrude_Wire(V) ==
    Ready /\ \E wire \in ArgOf("Shape"), v \in V :
        IF wire = NULL THEN Reject("OCCT_Extrude_Wire", <<wire, v>>)
        ELSE IF IsNull(heap[wire]) THEN Reject("OCCT_Extrude_Wire", <<wire, v>>)
        ELSE Derive("OCCT_Extrude_Wire", <<wire, v>>,
                    <<Cast("TopoDS::Wire", heap[wire], "WIRE"),
                      Step("BRepBuilderAPI_MakeFace", <<wire, TRUE>>, Outcomes),
                      Step("BRepPrimAPI_MakePrism", <<v>>, Outcomes)>>,
                    NewShape("SOLID"))

OCCT_Extrude_Face(V) ==
    Ready /\ \E face \in ArgOf("Shape"), v \in V :
        IF face = NULL THEN Reject("OCCT_Extrude_Face", <<face, v>>)
        ELSE IF IsNull(heap[face]) THEN Reject("OCCT_Extrude_Face", <<face, v>>)
        ELSE Derive("OCCT_Extrude_Face", <<face, v>>,
                    <<Cast("TopoDS::Face", heap[face], "FACE"),
                      Step("BRepPrimAPI_MakePrism", <<v>>, Outcomes)>>,
                    NewShape("SOLID"))

OCCT_Revolve_Wire(A) ==
    Ready /\ \E wire \in ArgOf("Shape"), axis \in ArgOf("Ax2"), angle \in A :
        IF wire = NULL \/ axis = NULL THEN Reject("OCCT_Revolve_Wire", <<wire, axis, angle>>)
        ELSE IF IsNull(heap[wire]) THEN Reject("OCCT_Revolve_Wire", <<wire, axis, angle>>)
        ELSE Derive("OCCT_Revolve_Wire", <<wire, axis, angle>>,
                    <<Cast("TopoDS::Wire", heap[wire], "WIRE"),
                      Step("BRepBuilderAPI_MakeFace", <<wire>>, Outcomes),
                      Step("BRepPrimAPI_MakeRevol",
                           <<heap[axis].loc, heap[axis].dir, angle>>, Outcomes)>>,
                    NewShape("SOLID"))

\* what a done Boolean operation hands back: a compound, possibly without topology
BooleanResults == {NewShape("COMPOUND"), EmptyShape}

\* Boolean taking its two inputs over: a done operation releases them
Boolean_Consuming(op, fn) ==
    Ready /\ \E shape1 \in ArgOf("Shape"), shape2 \in ArgOf("Shape") :
        IF shape1 = NULL \/ shape2 = NULL THEN Reject(op, <<shape1, shape2>>)
        ELSE IF IsNull(heap[shape1]) \/ IsNull(heap[shape2]) THEN Reject(op, <<shape1, shape2>>)
        ELSE \E result \in BooleanResults, o \in Outcomes :
                 LET k == <<KernelCall(fn, <<shape1, shape2>>, o)>>
                 IN  IF o = "done"
                     THEN /\ HasRoom
                          /\ heap' = [heap EXCEPT ![NewAddr] = result,
                                                  ![shape1] = Free, ![shape2] = Free]
                          /\ last' = ReturnHandle(op, <<shape1, shape2>>, NewAddr, k)
                     ELSE /\ heap' = heap
                          /\ last' = ReturnHandle(op, <<shape1, shape2>>, NULL, k)

Boolean(op, fn) ==
    Ready /\ \E shape1 \in ArgOf("Shape"), shape2 \in ArgOf("Shape") :
        IF shape1 = NULL \/ shape2 = NULL THEN Reject(op, <<shape1, shape2>>)
        ELSE IF IsNull(heap[shape1]) \/ IsNull(heap[shape2]) THEN Reject(op, <<shape1, shape2>>)
        ELSE \E result \in BooleanResults :
                 Derive(op, <<shape1, shape2>>,
                        <<Step(fn, <<shape1, shape2>>, Outcomes)>>, result)

OCCT_Boolean_Union == Boolean("OCCT_Boolean_Union", "BRepAlgoAPI_Fuse")

OCCT_Boolean_Difference == Boolean("OCCT_Boolean_Difference", "BRepAlgoAPI_Cut")

OCCT_Boolean_Intersection == Boolean("OCCT_Boolean_Intersection", "BRepAlgoAPI_Common")

----------------------------------------------------------------------------
(* Tessellation *)

\* 1e-7, in units of 1e-8 (the unit of a cross product of two edge vectors)
EpsNormal == 10

\* 1.0 in those units
One == EpsNormal * 10000000

\* the triangulations the mesher can attach to a face (Poly_Triangulation):
\* nodes, and triangles as triples of 1-based node indices.
\*  "mixed": node 1 to 3 sum to long normals, 4 and 5 lie on one small triangle
\*           only (sum of length 1e-8), the two triangles at 6 cancel
\*  "nodes": nodes and no triangle
Triangulation(name) ==
    IF name = "mixed"
    THEN [nodes |-> << <<0, 0, 0>>, <<4, 0, 0>>, <<0, 4, 0>>,
                       <<1, 0, 0>>, <<0, 1, 0>>, <<4, 4, 0>> >>,
          triangles |-> << <<1, 2, 3>>, <<1, 4, 5>>, <<6, 2, 3>>, <<6, 3, 2>> >>]
    ELSE [nodes |-> << <<0, 0, 0>> >>, triangles |-> <<>>]

TriNames == {"mixed", "nodes"}

\* BRepMesh_IncrementalMesh on the shape: a face that has a triangulation keeps
\* it, a face that has none gets one or stays without
Meshed(faces, names) ==
    {[i \in 1..Len(faces) |-> [loc |-> faces[i].loc, tri |-> t[i]]] :
        t \in {u \in [1..Len(faces) -> names \cup {"none"}] :
                 \A i \in 1..Len(faces) : faces[i].tri # "none" => u[i] = faces[i].tri}}

\* tri->Node(i).Transformed(transform), the transform being the face's placement
Transformed(p, loc) == Add(p, loc)

\* the running normals after the triangles from index i on are accumulated
RECURSIVE Accumulate(_, _, _, _)
Accumulate(nodes, triangles, nodeNormals, i) ==
    IF i > Len(triangles) THEN nodeNormals
    ELSE LET n1 == triangles[i][1]
             n2 == triangles[i][2]
             n3 == triangles[i][3]
             v1 == Sub(nodes[n2], nodes[n1])
             v2 == Sub(nodes[n3], nodes[n1])
             triNormal == Crossed(v1, v2)
             a == [nodeNormals EXCEPT ![n1] = Add(@, triNormal)]
             b == [a EXCEPT ![n2] = Add(@, triNormal)]
             c == [b EXCEPT ![n3] = Add(@, triNormal)]
         IN  Accumulate(nodes, triangles, c, i + 1)

\* if (n.Magnitude() > 1e-7) n.Normalize(); then n is stored.  A normalized
\* vector is kept as the vector and the mark that it was divided by its length.
StoreNormal(n) ==
    [v |-> n, normalized |-> SquareMagnitude(n) > EpsNormal * EpsNormal]

\* vertices.size() / 3: an element of vertices is one x, y, z triple
VertexOffset(vertices) == Len(vertices)

\* EmitIndex without the conversion to 0-based indexing
EmitIndex_OneBased(vertex_offset, n) == vertex_offset + n

\* vertex_offset + n - 1
EmitIndex(vertex_offset, n) == vertex_offset + n - 1

\* WalkFace with a fallback vertex made up for a face that has no triangulation
WalkFace_Fallback(acc, face) ==
    IF face.tri = "none" THEN [acc EXCEPT !.vertices = Append(@, face.loc)]
    ELSE LET tri == Triangulation(face.tri)
             NbNodes == Len(tri.nodes)
             NbTriangles == Len(tri.triangles)
             vertex_offset == VertexOffset(acc.vertices)
             nodes == [i \in 1..NbNodes |-> Transformed(tri.nodes[i], face.loc)]
             nodeNormals == Accumulate(nodes, tri.triangles,
                                       [i \in 1..NbNodes |-> Origin], 1)
         IN  [vertices |-> acc.vertices \o nodes,
              normals |-> acc.normals \o [i \in 1..NbNodes |-> StoreNormal(nodeNormals[i])],
              triangles |-> acc.triangles \o
                  [i \in 1..NbTriangles |->
                      <<EmitIndex(vertex_offset, tri.triangles[i][1]),
                        EmitIndex(vertex_offset, tri.triangles[i][2]),
                        EmitIndex(vertex_offset, tri.triangles[i][3])>>]]

\* one iteration of the loop over the faces
WalkFace(acc, face) ==
    IF face.tri = "none" THEN acc
    ELSE LET tri == Triangulation(face.tri)
             NbNodes == Len(tri.nodes)
             NbTriangles == Len(tri.triangles)
             vertex_offset == VertexOffset(acc.vertices)
             nodes == [i \in 1..NbNodes |-> Transformed(tri.nodes[i], face.loc)]
             nodeNormals == Accumulate(nodes, tri.triangles,
                                       [i \in 1..NbNodes |-> Origin], 1)
         IN  [vertices |-> acc.vertices \o nodes,
              normals |-> acc.normals \o [i \in 1..NbNodes |-> StoreNormal(nodeNormals[i])],
              triangles |-> acc.triangles \o
                  [i \in 1..NbTriangles |->
                      <<EmitIndex(vertex_offset, tri.triangles[i][1]),
                        EmitIndex(vertex_offset, tri.triangles[i][2]),
                        EmitIndex(vertex_offset, tri.triangles[i][3])>>]]

EmptyBuffers == [vertices |-> <<>>, normals |-> <<>>, triangles |-> <<>>]

\* the buffers after the first k faces
RECURSIVE Walk(_, _)
Walk(faces, k) == IF k = 0 THEN EmptyBuffers ELSE WalkFace(Walk(faces, k - 1), faces[k])

\* NothingToReturn without the test of the triangles
NothingToReturn_VerticesOnly(acc) == acc.vertices = <<>>

\* if (vertices.empty() || triangles.empty()) return nullptr;
NothingToReturn(acc) == acc.vertices = <<>> \/ acc.triangles = <<>>

\* new OCCT_Mesh with its three buffers copied from the vectors
NewMesh(acc) ==
    [kind |-> "Mesh",
     num_vertices |-> Len(acc.vertices), num_triangles |-> Len(acc.triangles),
     vertices |-> acc.vertices, normals |-> acc.normals, triangles |-> acc.triangles]

OCCT_Tessellate(T, names) ==
    Ready /\ \E shape \in ArgOf("Shape"), params \in T :
        IF shape = NULL THEN Reject("OCCT_Tessellate", <<shape, params>>)
        ELSE IF IsNull(heap[shape]) THEN Reject("OCCT_Tessellate", <<shape, params>>)
        ELSE \E o \in Outcomes, faces \in Meshed(heap[shape].faces, names) :
                 LET k == <<KernelCall("BRepMesh_IncrementalMesh", <<shape, params>>, o)>>
                     meshed == [heap EXCEPT ![shape].faces = faces]
                     acc == Walk(faces, Len(faces))
                 IN  IF o # "done" \/ NothingToReturn(acc)
                     THEN /\ heap' = meshed
                          /\ last' = ReturnHandle("OCCT_Tessellate", <<shape, params>>, NULL, k)
                     ELSE /\ HasRoom
                          /\ heap' = [meshed EXCEPT ![NewAddr] = NewMesh(acc)]
                          /\ last' = ReturnHandle("OCCT_Tessellate", <<shape, params>>,
                                                  NewAddr, k)

OCCT_Mesh_Delete == Delete("OCCT_Mesh_Delete", "Mesh")

----------------------------------------------------------------------------
(* Utility functions *)

OCCT_Initialize ==
    /\ Ready
    /\ heap' = heap
    /\ last' = Returned("OCCT_Initialize", <<>>, NULL, NoValue, FALSE, <<>>)

OCCT_Cleanup ==
    /\ Ready
    /\ heap' = heap
    /\ last' = Returned("OCCT_Cleanup", <<>>, NULL, NoValue, FALSE, <<>>)

----------------------------------------------------------------------------
(* Specifications *)

\* largest dimension tried by the primitive factories
MaxDim == 2

Dims == (0 - 1)..MaxDim

\* the dimensions the whole-facade specification tries
FewDims == {0, 1}

Corners == {Origin, <<1, 1, 1>>, <<1, 0, 2>>}

\* polylines of 2D points: a segment of length 6e-8, one of length 1e-7
Polylines2D == {<< <<0, 0>> >>, << <<0, 0>>, <<6, 8>> >>}

Polylines3D == {<< <<0, 0, 0>>, <<0, 0, 0>> >>, << <<0, 0, 0>>, <<0, 6, 8>> >>}

ExtrudeVectors == {<<0, 0, 1>>}

Angles == {1}

TessParams == {[linear_deflection |-> 1, angular_deflection |-> 5, relative |-> FALSE]}

\* the whole facade
Next ==
    \/ OCCT_Shape_Delete
    \/ OCCT_Shape_IsValid
    \/ OCCT_Shape_Type
    \/ OCCT_Pnt_Create({<<0, 0, 2>>})
    \/ OCCT_Pnt_Delete
    \/ OCCT_Vec_Create({<<0, 0, 2>>})
    \/ OCCT_Vec_Delete
    \/ OCCT_Dir_Create(Triples)
    \/ OCCT_Dir_Delete
    \/ OCCT_Ax2_Create
    \/ OCCT_Ax2_Delete
    \/ OCCT_Wire_FromPoints2D(Polylines2D)
    \/ OCCT_Wire_FromPoints3D(Polylines3D)
    \/ OCCT_Wire_Delete
    \/ OCCT_Extrude_Wire(ExtrudeVectors)
    \/ OCCT_Extrude_Face(ExtrudeVectors)
    \/ OCCT_Revolve_Wire(Angles)
    \/ OCCT_Boolean_Union
    \/ OCCT_Boolean_Difference
    \/ OCCT_Boolean_Intersection
    \/ OCCT_Primitive_Box(FewDims)
    \/ OCCT_Primitive_Box_TwoCorners({Origin, <<1, 1, 1>>})
    \/ OCCT_Primitive_Cylinder(FewDims)
    \/ OCCT_Primitive_Cylinder_Axis(FewDims)
    \/ OCCT_Primitive_Sphere(FewDims)
    \/ OCCT_Primitive_Sphere_Center(FewDims)
    \/ OCCT_Primitive_Cone(FewDims)
    \/ OCCT_Primitive_Torus(FewDims)
    \/ OCCT_Tessellate(TessParams, {"mixed"})
    \/ OCCT_Mesh_Delete
    \/ OCCT_Initialize
    \/ OCCT_Cleanup
    \/ Resume

Spec == Init /\ [][Next]_vars

\* the primitive factories, with every sign and order of their dimensions
NextPrim ==
    \/ OCCT_Pnt_Create(Triples)
    \/ OCCT_Pnt_Delete
    \/ OCCT_Dir_Create(Triples)
    \/ OCCT_Dir_Delete
    \/ OCCT_Shape_Delete
    \/ OCCT_Primitive_Box(Dims)
    \/ OCCT_Primitive_Box_TwoCorners(Corners)
    \/ OCCT_Primitive_Cylinder(Dims)
    \/ OCCT_Primitive_Cylinder_Axis(Dims)
    \/ OCCT_Primitive_Sphere(Dims)
    \/ OCCT_Primitive_Sphere_Center(Dims)
    \/ OCCT_Primitive_Cone(Dims)
    \/ OCCT_Primitive_Torus(Dims)
    \/ Resume

SpecPrim == Init /\ [][NextPrim]_vars

\* the shapes a caller can hold when it asks for a mesh: a wire, a solid whose
\* faces earlier calls have meshed or not, a shape without topology
TessShapes ==
    {NewShape("WIRE"), EmptyShape}
    \cup {[NewShape("SOLID") EXCEPT !.faces = f] : f \in Meshed(NewShape("SOLID").faces, TriNames)}

InitTess ==
    /\ \E s \in TessShapes : heap = [h \in Handles |-> IF h = 1 THEN s ELSE Free]
    /\ last = Idle

\* tessellation of one shape, with every triangulation the mesher can attach
NextTess ==
    \/ OCCT_Tessellate(TessParams, TriNames)
    \/ OCCT_Mesh_Delete
    \/ Resume

SpecTess == InitTess /\ [][NextTess]_vars

\* largest number of points of a polyline
MaxPts == 3

\* all sequences of at most n elements of S
SeqUpTo(S, n) == UNION {[1..m -> S] : m \in 0..n}

\* 2D points at the distances 0, below 1e-7, and exactly 1e-7 from one another
Points2D == {<<0, 0>>, <<5, 8>>, <<6, 8>>}

\* 3D points at those distances, off the plane z = 0
Points3D == {<<0, 0, 0>>, <<0, 5, 8>>, <<0, 6, 8>>}

\* the wire builders, with every short polyline over those points
NextWire ==
    \/ OCCT_Wire_FromPoints2D(SeqUpTo(Points2D, MaxPts))
    \/ OCCT_Wire_FromPoints3D(SeqUpTo(Points3D, MaxPts))
    \/ OCCT_Wire_Delete
    \/ Resume

SpecWire == Init /\ [][NextWire]_vars

\* a solid after a tessellation that meshed all its faces
MeshedSolid ==
    [NewShape("SOLID") EXCEPT
        !.faces = [i \in 1..MaxFaces |-> [loc |-> NewFace(i).loc, tri |-> "mixed"]]]

\* the caller holds one such solid
InitDelete ==
    /\ heap = [h \in Handles |-> IF h = 1 THEN MeshedSolid ELSE Free]
    /\ last = Idle

\* the seven delete operations, with a factory for every other kind of object
NextDelete ==
    \/ OCCT_Pnt_Create({<<0, 0, 2>>})
    \/ OCCT_Vec_Create({<<0, 0, 2>>})
    \/ OCCT_Dir_Create({<<0, 0, 2>>})
    \/ OCCT_Ax2_Create
    \/ OCCT_Tessellate(TessParams, {"mixed"})
    \/ OCCT_Shape_Delete
    \/ OCCT_Wire_Delete
    \/ OCCT_Pnt_Delete
    \/ OCCT_Vec_Delete
    \/ OCCT_Dir_Delete
    \/ OCCT_Ax2_Delete
    \/ OCCT_Mesh_Delete
    \/ Resume

SpecDelete == InitDelete /\ [][NextDelete]_vars

\* the Boolean operations on boxes and on their own results
NextBoolean ==
    \/ OCCT_Primitive_Box({1})
    \/ OCCT_Boolean_Union
    \/ OCCT_Boolean_Difference
    \/ OCCT_Boolean_Intersection
    \/ OCCT_Shape_Delete
    \/ Resume

SpecBoolean == Init /\ [][NextBoolean]_vars

\* one polyline: two points far more than 1e-7 apart
Segment2D == {<< <<0, 0>>, <<60, 80>> >>}

\* the life of objects: value and wire factories, every operation that derives
\* an object from others, and the deletes
NextOwnership ==
    \/ OCCT_Pnt_Create({<<0, 0, 2>>})
    \/ OCCT_Dir_Create(Triples)
    \/ OCCT_Ax2_Create
    \/ OCCT_Wire_FromPoints2D(Segment2D)
    \/ OCCT_Extrude_Wire(ExtrudeVectors)
    \/ OCCT_Extrude_Face(ExtrudeVectors)
    \/ OCCT_Revolve_Wire(Angles)
    \/ OCCT_Boolean_Union
    \/ OCCT_Tessellate(TessParams, {"mixed"})
    \/ OCCT_Pnt_Delete
    \/ OCCT_Dir_Delete
    \/ OCCT_Ax2_Delete
    \/ OCCT_Wire_Delete
    \/ OCCT_Shape_Delete
    \/ OCCT_Mesh_Delete
    \/ Resume

SpecOwnership == Init /\ [][NextOwnership]_vars

----------------------------------------------------------------------------
(* Claims *)

\* C1: no exposed operation lets a kernel exception escape: whenever the
\* delegated kernel step raises, the operation still returns normally.
C1_NoExceptionEscapes == last.status = "returned"

\* C2: OCCT_Shape_Type returns -1 for a null handle or an empty shape, and
\* otherwise the documented number of the shape's kind (0=vertex, 1=edge, 2=wire,
\* 3=face, 4=shell, 5=solid, 6=compound); the result is always in -1..6.
C2_ShapeTypeEnumeration ==
    last.op = "OCCT_Shape_Type" =>
        LET shape == last.args[1]
        IN  /\ last.value \in (0 - 1)..6
            /\ IF shape = NULL THEN last.value = 0 - 1
               ELSE IF IsNull(heap[shape]) THEN last.value = 0 - 1
               ELSE last.value = DocumentedShapeType(heap[shape].type)

\* the operations that create or build an object
CreateOps ==
    {"OCCT_Pnt_Create", "OCCT_Vec_Create", "OCCT_Dir_Create", "OCCT_Ax2_Create",
     "OCCT_Wire_FromPoints2D", "OCCT_Wire_FromPoints3D",
     "OCCT_Extrude_Wire", "OCCT_Extrude_Face", "OCCT_Revolve_Wire",
     "OCCT_Boolean_Union", "OCCT_Boolean_Difference", "OCCT_Boolean_Intersection",
     "OCCT_Primitive_Box", "OCCT_Primitive_Box_TwoCorners", "OCCT_Primitive_Cylinder",
     "OCCT_Primitive_Cylinder_Axis", "OCCT_Primitive_Sphere", "OCCT_Primitive_Sphere_Center",
     "OCCT_Primitive_Cone", "OCCT_Primitive_Torus", "OCCT_Tessellate"}

\* C3: every create/build operation is all-or-nothing: it returns a non-null
\* handle to a constructed object or it returns null, and on every null return
\* the live objects, the inputs among them, are exactly what they were.
C3_AllOrNothing ==
    [][last'.op \in CreateOps =>
          /\ last'.status = "returned"
          /\ last'.handle # NULL =>
                /\ heap[last'.handle].kind = "free"
                /\ heap'[last'.handle].kind # "free"
          /\ last'.handle = NULL => heap' = heap]_vars

Meshes == {heap[h] : h \in LiveOf("Mesh")}

\* C4: in every mesh returned by OCCT_Tessellate every triangle index i
\* satisfies 0 <= i < num_vertices, whatever faces were triangulated or skipped.
C4_IndicesInRange ==
    \A m \in Meshes :
        \A i \in 1..Len(m.triangles) :
            \A j \in 1..3 : 0 <= m.triangles[i][j] /\ m.triangles[i][j] < m.num_vertices

\* a mesh of two triangulated faces was returned: the indices of the second
\* face lie past the nodes of the first
C4_Witness ==
    /\ last.op = "OCCT_Tessellate"
    /\ last.handle # NULL
    /\ \E i \in 1..Len(heap[last.handle].triangles) :
           heap[last.handle].triangles[i][1] >= Len(Triangulation("mixed").nodes)

\* the length of a stored normal is 1: it was divided by its length, or it
\* was stored as accumulated and its length is One
IsUnit(e) ==
    IF e.normalized THEN SquareMagnitude(e.v) > 0
    ELSE SquareMagnitude(e.v) % One = 0 /\ SquareMagnitude(e.v) \div One = One

IsZero(e) == e.v = Origin

\* C5: every per-vertex normal emitted by OCCT_Tessellate is of unit magnitude
\* or exactly the zero vector.
C5_NormalsUnitOrZero ==
    \A m \in Meshes : \A i \in 1..Len(m.normals) : IsUnit(m.normals[i]) \/ IsZero(m.normals[i])

\* C6: OCCT_Tessellate returns null when the handle is null, the shape is
\* empty, the mesher reports not-done, or the walk over the faces yields no vertex
\* or no triangle; every mesh it returns has at least one vertex and one triangle.
C6_NullOrNonEmptyMesh ==
    /\ \A m \in Meshes : m.num_vertices >= 1 /\ m.num_triangles >= 1
    /\ last.op = "OCCT_Tessellate" =>
          LET shape == last.args[1]
          IN  \/ last.handle = NULL
              \/ /\ shape # NULL
                 /\ ~IsNull(heap[shape])
                 /\ last.kernel[1].outcome = "done"
                 /\ \E f \in 1..Len(heap[shape].faces) :
                        /\ heap[shape].faces[f].tri # "none"
                        /\ Len(Triangulation(heap[shape].faces[f].tri).nodes) >= 1
                 /\ \E f \in 1..Len(heap[shape].faces) :
                        /\ heap[shape].faces[f].tri # "none"
                        /\ Len(Triangulation(heap[shape].faces[f].tri).triangles) >= 1

\* the mesher was done and attached nodes, yet no triangle: null was returned
C6_Witness ==
    /\ last.op = "OCCT_Tessellate"
    /\ last.handle = NULL
    /\ last.kernel # <<>>
    /\ last.kernel[1].outcome = "done"
    /\ \E f \in 1..Len(heap[last.args[1]].faces) : heap[last.args[1]].faces[f].tri = "nodes"

\* a kernel builder call with a degenerate or non-positive extent
DegenerateCall(c) ==
    \/ /\ c.fn = "BRepPrimAPI_MakeBox"
       /\ IF Len(c.args) = 3
          THEN \E a \in 1..3 : c.args[a] <= 0
          ELSE \E a \in 1..3 : c.args[1][a] = c.args[2][a]
    \/ /\ c.fn = "BRepPrimAPI_MakeCylinder"
       /\ (c.args[Len(c.args) - 1] <= 0 \/ c.args[Len(c.args)] <= 0)
    \/ /\ c.fn = "BRepPrimAPI_MakeSphere"
       /\ c.args[Len(c.args)] <= 0
    \/ /\ c.fn = "BRepPrimAPI_MakeCone"
       /\ (c.args[1] < 0 \/ c.args[2] < 0 \/ c.args[3] <= 0 \/ (c.args[1] = 0 /\ c.args[2] = 0))
    \/ /\ c.fn = "BRepPrimAPI_MakeTorus"
       /\ (c.args[1] <= 0 \/ c.args[2] <= 0 \/ c.args[2] >= c.args[1])

\* C7: each of the eight primitive factories validates its dimensions before
\* delegating: the kernel builder is never invoked with a degenerate or
\* non-positive extent, and null is returned instead.
C7_ValidatesBeforeDelegating ==
    \A i \in 1..Len(last.kernel) : ~DegenerateCall(last.kernel[i])

\* C8: OCCT_Primitive_Box returns null without invoking the kernel when a
\* dimension is <= 0; with all three > 0 it invokes the box builder exactly once
\* and returns a non-null, newly owned handle iff the builder was done.
C8_Box ==
    [][last'.op = "OCCT_Primitive_Box" =>
          LET a == last'.args
              k == last'.kernel
              h == last'.handle
          IN  /\ last'.status = "returned"
              /\ (a[1] <= 0 \/ a[2] <= 0 \/ a[3] <= 0) => (h = NULL /\ k = <<>>)
              /\ (a[1] > 0 /\ a[2] > 0 /\ a[3] > 0) =>
                    /\ Len(k) = 1
                    /\ k[1].fn = "BRepPrimAPI_MakeBox"
                    /\ k[1].args = a
                    /\ h # NULL <=> k[1].outcome = "done"
              /\ h # NULL => heap[h].kind = "free" /\ heap'[h].kind = "Shape"
              /\ \A g \in Handles : g # h => heap'[g] = heap[g]]_vars

\* a box of positive dimensions was built and its handle returned
C8_Witness ==
    /\ last.op = "OCCT_Primitive_Box"
    /\ last.handle # NULL
    /\ last.kernel[1].outcome = "done"

\* C9: OCCT_Primitive_Torus returns null when minor >= major or a radius is
\* <= 0, and reaches the kernel torus builder exactly when 0 < minor < major.
C9_Torus ==
    last.op = "OCCT_Primitive_Torus" =>
        LET major == last.args[1]
            minor == last.args[2]
        IN  /\ (minor >= major \/ major <= 0 \/ minor <= 0) => last.handle = NULL
            /\ last.kernel # <<>> <=> (0 < minor /\ minor < major)
            /\ last.kernel # <<>> =>
                  /\ Len(last.kernel) = 1
                  /\ last.kernel[1].fn = "BRepPrimAPI_MakeTorus"
                  /\ last.kernel[1].args = <<major, minor>>

\* a torus of equal positive radii was asked for
C9_Witness ==
    /\ last.op = "OCCT_Primitive_Torus"
    /\ last.args[1] = last.args[2]
    /\ last.args[1] > 0
    /\ last.handle = NULL

\* C10: OCCT_Primitive_Cone returns null without invoking the kernel when
\* r1 < 0, r2 < 0, h <= 0, or r1 = 0 and r2 = 0; for every other input, one radius
\* zero and r1 = r2 > 0 included, it delegates to the kernel cone builder.
C10_Cone ==
    last.op = "OCCT_Primitive_Cone" =>
        LET r1 == last.args[1]
            r2 == last.args[2]
            h == last.args[3]
            rejected == r1 < 0 \/ r2 < 0 \/ h <= 0 \/ (r1 = 0 /\ r2 = 0)
        IN  /\ rejected => (last.handle = NULL /\ last.kernel = <<>>)
            /\ ~rejected =>
                  /\ Len(last.kernel) = 1
                  /\ last.kernel[1].fn = "BRepPrimAPI_MakeCone"
                  /\ last.kernel[1].args = <<r1, r2, h>>

\* a cone with one radius zero reached the kernel
C10_Witness ==
    /\ last.op = "OCCT_Primitive_Cone"
    /\ last.args[1] = 0
    /\ last.args[2] > 0
    /\ last.kernel # <<>>

WireOps == {"OCCT_Wire_FromPoints2D", "OCCT_Wire_FromPoints3D"}

\* a wire call that got past the check of its arguments
WireCall(c) == c.op \in WireOps /\ ~c.args[1] /\ Len(c.args[2]) >= 2

\* the point p[i] of the polyline of a wire call, i counted from 0
PointOf(c, i) ==
    IF c.op = "OCCT_Wire_FromPoints2D"
    THEN <<c.args[2][i + 1][1], c.args[2][i + 1][2], 0>>
    ELSE c.args[2][i + 1]

\* the pairs (p[i], p[i+1]) for 0 <= i < n-1, and (p[n-1], p[0]) iff closed
PairsOf(c) ==
    LET n == Len(c.args[2])
    IN  [i \in 1..(IF c.args[3] THEN n ELSE n - 1) |-> <<PointOf(c, i - 1), PointOf(c, i % n)>>]

\* the two points of a pair are not closer than 1e-7
Far(pair) == SquareDistance(pair[1], pair[2]) >= EpsWire * EpsWire

\* the pairs of points of the calls in a log
ArgsOf(log) == [j \in 1..Len(log) |-> log[j].args]

Edges(log) == SelectSeq(log, LAMBDA k : k.fn = "BRepBuilderAPI_MakeEdge")

OnPlane(pairs) == \A j \in 1..Len(pairs) : pairs[j][1][3] = 0 /\ pairs[j][2][3] = 0

\* C11: for the two wire builders with n >= 2 points, the segments offered to
\* the wire builder are, in index order, exactly the pairs (p[i], p[i+1]) for
\* 0 <= i < n-1, plus (p[n-1], p[0]) iff closed, minus every pair closer than
\* 1e-7; the 2D variant places every point at z = 0.
C11_SegmentsOffered ==
    WireCall(last) =>
        /\ ArgsOf(Added(last.kernel)) = SelectSeq(PairsOf(last), Far)
        /\ last.op = "OCCT_Wire_FromPoints2D" => OnPlane(ArgsOf(Added(last.kernel)))

\* C11, amended: the pairs not closer than 1e-7 are handed, in index order, to
\* the edge builder, up to the first one on which it raises (the call then
\* returns null); the segments offered to the wire builder are exactly those
\* for which the edge builder was done; the 2D variant places every point at
\* z = 0.
C11_SegmentsOfDoneEdges ==
    WireCall(last) =>
        LET far == SelectSeq(PairsOf(last), Far)
            edges == Edges(last.kernel)
        IN  /\ Len(edges) <= Len(far)
            /\ \A j \in 1..Len(edges) : edges[j].args = far[j]
            /\ \A j \in 1..(Len(edges) - 1) : edges[j].outcome # "raise"
            /\ Len(edges) < Len(far) =>
                  /\ edges # <<>>
                  /\ edges[Len(edges)].outcome = "raise"
            /\ Raised(last.kernel) => last.handle = NULL
            /\ ArgsOf(Added(last.kernel)) =
                  ArgsOf(SelectSeq(edges, LAMBDA k : k.outcome = "done"))
            /\ last.op = "OCCT_Wire_FromPoints2D" => OnPlane(ArgsOf(Added(last.kernel)))

\* a closed polyline of three points: one pair is skipped as degenerate, one
\* edge is not done, one segment is offered and the wire is returned
C11_Witness ==
    /\ WireCall(last)
    /\ last.args[3]
    /\ Len(last.args[2]) = 3
    /\ Len(SelectSeq(PairsOf(last), Far)) = 2
    /\ Len(Added(last.kernel)) = 1
    /\ last.handle # NULL

\* an open polyline with two consecutive points that coincide or nearly so
OpenWithDuplicates(c) ==
    /\ WireCall(c)
    /\ ~c.args[3]
    /\ \E j \in 1..Len(PairsOf(c)) : ~Far(PairsOf(c)[j])

\* C12: the wire builders return null when the point array is null or fewer
\* than 2 points are supplied; with closed = false and consecutive duplicate
\* points they return a non-null wire if at least one non-degenerate segment
\* remains after filtering, and null if none remains.
C12_WireFromPolyline ==
    last.op \in WireOps =>
        /\ (last.args[1] \/ Len(last.args[2]) < 2) => last.handle = NULL
        /\ OpenWithDuplicates(last) =>
              /\ SelectSeq(PairsOf(last), Far) # <<>> =>
                    /\ last.handle # NULL
                    /\ heap[last.handle].type = "WIRE"
              /\ SelectSeq(PairsOf(last), Far) = <<>> => last.handle = NULL

\* C12, amended: null when the point array is null or fewer than 2 points are
\* supplied, without a call to the kernel; with closed = false and consecutive
\* duplicate points, null if no non-degenerate segment remains, and otherwise a
\* non-null wire exactly when the kernel did not raise, at least one edge was
\* done and offered, and the wire builder reports done.
C12_WireIfKernelDone ==
    last.op \in WireOps =>
        /\ (last.args[1] \/ Len(last.args[2]) < 2) => (last.handle = NULL /\ last.kernel = <<>>)
        /\ OpenWithDuplicates(last) =>
              /\ SelectSeq(PairsOf(last), Far) = <<>> => last.handle = NULL
              /\ last.handle # NULL <=>
                    /\ ~Raised(last.kernel)
                    /\ Added(last.kernel) # <<>>
                    /\ last.kernel[Len(last.kernel)].fn = "BRepBuilderAPI_MakeWire"
                    /\ last.kernel[Len(last.kernel)].outcome = "done"
              /\ last.handle # NULL => heap[last.handle].type = "WIRE"

\* an open polyline whose first two points coincide and whose one remaining
\* segment made the wire
C12_Witness ==
    /\ OpenWithDuplicates(last)
    /\ last.args[2][1] = last.args[2][2]
    /\ Len(SelectSeq(PairsOf(last), Far)) = 1
    /\ last.handle # NULL

DeleteOps ==
    {"OCCT_Shape_Delete", "OCCT_Wire_Delete", "OCCT_Pnt_Delete", "OCCT_Vec_Delete",
     "OCCT_Dir_Delete", "OCCT_Ax2_Delete", "OCCT_Mesh_Delete"}

\* C13: every delete operation called with a null handle is a no-op: it returns
\* normally, releases nothing and leaves the live objects as they were, however
\* often it is repeated and wherever in a call sequence it comes.
C13_DeleteNullIsNoOp ==
    [][(last'.op \in DeleteOps /\ last'.args[1] = NULL) =>
          (last'.status = "returned" /\ heap' = heap)]_vars

\* a mesh delete with a null handle returned while a mesh and other objects live
C13_Witness ==
    /\ last.op = "OCCT_Mesh_Delete"
    /\ last.args[1] = NULL
    /\ LiveOf("Mesh") # {}
    /\ \A h \in Handles : heap[h].kind # "free"

\* the kernel algorithm behind each Boolean operation
BooleanOps ==
    [OCCT_Boolean_Union |-> "BRepAlgoAPI_Fuse", OCCT_Boolean_Difference |-> "BRepAlgoAPI_Cut",
     OCCT_Boolean_Intersection |-> "BRepAlgoAPI_Common"]

\* the handle is null or refers to a shape without topology
NullOrEmpty(h) == h = NULL \/ IsNull(heap[h])

\* C14: Union, Difference and Intersection return null when an input handle is
\* null or refers to an empty shape; otherwise null if the kernel Boolean is not
\* done or raises, and on success a newly allocated handle distinct from both
\* inputs; in every case both inputs are left live and unmodified: the operation
\* never releases its inputs.
C14_BooleanFrame ==
    [][last'.op \in DOMAIN BooleanOps =>
          LET a == last'.args[1]
              b == last'.args[2]
              k == last'.kernel
              h == last'.handle
          IN  /\ last'.status = "returned"
              /\ (NullOrEmpty(a) \/ NullOrEmpty(b)) => (h = NULL /\ k = <<>>)
              /\ ~(NullOrEmpty(a) \/ NullOrEmpty(b)) =>
                    /\ Len(k) = 1
                    /\ k[1].fn = BooleanOps[last'.op]
                    /\ k[1].args = <<a, b>>
                    /\ h # NULL <=> k[1].outcome = "done"
              /\ h # NULL =>
                    /\ h \notin {a, b}
                    /\ heap[h].kind = "free"
                    /\ heap'[h].kind = "Shape"
              /\ \A g \in {a, b} \ {NULL} : heap[g].kind = "Shape"
              /\ \A g \in Handles \ {h} : heap'[g] = heap[g]]_vars

\* a difference of two distinct solids was done: its result is a third object
\* and both inputs are still live
C14_Witness ==
    /\ last.op = "OCCT_Boolean_Difference"
    /\ last.handle # NULL
    /\ last.args[1] # last.args[2]
    /\ \A g \in {last.args[1], last.args[2]} : heap[g].kind = "Shape" /\ heap[g].type = "SOLID"

\* the node count of a face: none for a face without a triangulation
NbNodesOf(face) == IF face.tri = "none" THEN 0 ELSE Len(Triangulation(face.tri).nodes)

NbTrianglesOf(face) == IF face.tri = "none" THEN 0 ELSE Len(Triangulation(face.tri).triangles)

\* the sum of count over the first k faces
RECURSIVE SumOver(_, _, _)
SumOver(count(_), faces, k) ==
    IF k = 0 THEN 0 ELSE SumOver(count, faces, k - 1) + count(faces[k])

\* the three buffers hold what the first k faces contribute, and nothing else
ConsistentAfter(acc, faces, k) ==
    /\ Len(acc.normals) = Len(acc.vertices)
    /\ Len(acc.vertices) = SumOver(NbNodesOf, faces, k)
    /\ Len(acc.triangles) = SumOver(NbTrianglesOf, faces, k)

\* C15: in every mesh returned by OCCT_Tessellate the normals buffer has one
\* entry per vertex, num_vertices is the sum of the node counts of the faces that
\* have a triangulation and num_triangles the sum of their triangle counts; a
\* face without a triangulation contributes nothing; and the buffers are
\* consistent in this way after each face of the walk, not only at the end.
C15_BuffersConsistent ==
    /\ \A m \in Meshes :
           /\ Len(m.normals) = Len(m.vertices)
           /\ m.num_vertices = Len(m.vertices)
           /\ m.num_triangles = Len(m.triangles)
    /\ (last.op = "OCCT_Tessellate" /\ last.handle # NULL) =>
          LET faces == heap[last.args[1]].faces
              m == heap[last.handle]
          IN  /\ m.num_vertices = SumOver(NbNodesOf, faces, Len(faces))
              /\ m.num_triangles = SumOver(NbTrianglesOf, faces, Len(faces))
              /\ \A k \in 0..Len(faces) : ConsistentAfter(Walk(faces, k), faces, k)
              /\ \A k \in 1..Len(faces) :
                     faces[k].tri = "none" => Walk(faces, k) = Walk(faces, k - 1)
              /\ [vertices |-> m.vertices, normals |-> m.normals, triangles |-> m.triangles]
                    = Walk(faces, Len(faces))

\* a mesh was returned for a shape one of whose faces the mesher left without
\* a triangulation, after a face that has one
C15_Witness ==
    /\ last.op = "OCCT_Tessellate"
    /\ last.handle # NULL
    /\ \E k \in 2..Len(heap[last.args[1]].faces) :
           /\ heap[last.args[1]].faces[k].tri = "none"
           /\ heap[last.args[1]].faces[k - 1].tri # "none"

\* the objects allocated by the facade and not released
LiveSet(hp) == {h \in Handles : hp[h].kind # "free"}

\* the non-null handles a call was given
HandlesOf(c) ==
    LET at(S) == {c.args[i] : i \in S} \ {NULL}
    IN  CASE c.op \in DeleteOps -> at({1})
          [] c.op \in {"OCCT_Shape_IsValid", "OCCT_Shape_Type", "OCCT_Tessellate",
                       "OCCT_Extrude_Wire", "OCCT_Extrude_Face",
                       "OCCT_Primitive_Sphere_Center"} -> at({1})
          [] c.op \in {"OCCT_Ax2_Create", "OCCT_Revolve_Wire", "OCCT_Primitive_Cylinder_Axis"}
               \cup DOMAIN BooleanOps -> at({1, 2})
          [] OTHER -> {}

====
